---- MODULE Spec2Model ----
(***************************************************************************)
(* Model of blur_faces.py: the BlurTool edit session.  The state is the    *)
(* live image, the undo history, the two brush parameters, the pointer     *)
(* position and the main loop's status; there is one action per mouse      *)
(* event and per key branch of BlurTool.run.  storage tells which array    *)
(* each history entry is held in; depth counts the clicks that passed the  *)
(* empty-box test less the undos that found a history entry.               *)
(*                                                                         *)
(* An image is a function  row -> column -> <<b, g, r>>  with rows and     *)
(* columns counted from 0, as the numpy array of cv2.imread is.            *)
(***************************************************************************)
EXTENDS Integers, Sequences, FiniteSets, TLC

VARIABLES image, history, radius, blur_strength, mouse_pos, session, saved, last,
          storage, original, depth

vars == <<image, history, radius, blur_strength, mouse_pos, session, saved, last,
          storage, original, depth>>

(***************************************************************************)
(* Bound of the model: the undo history is unbounded in the program; a     *)
(* click that would push a snapshot is taken only below this depth.        *)
(***************************************************************************)
MaxHistory == 1

(***************************************************************************)
(* Program constants.                                                      *)
(***************************************************************************)
Channels == 3
InitRadius == 50
InitBlur == 51
RadiusStep == 10
RadiusMax == 300
RadiusMin == 10
BlurStep == 10
BlurMax == 199
BlurMin == 11
MaskOn == 255

\* f itself: the model checker evaluates a function expression anew at each
\* application unless its value has been compared.
Value(f) == CHOOSE g \in {f} : g = f

Max(a, b) == IF a >= b THEN a ELSE b
Min(a, b) == IF a <= b THEN a ELSE b
Sq(a) == a * a
Abs(a) == IF a < 0 THEN -a ELSE a

\* h, w = self.image.shape[:2]
Height(img) == Cardinality(DOMAIN img)
Width(img) == IF Height(img) = 0 THEN 0 ELSE Cardinality(DOMAIN img[0])

(***************************************************************************)
(* The images a session may be started on: cv2.imread yields a 3-channel   *)
(* array.  One image of 2 x 2 distinct pixels, and one of uniform colour,  *)
(* 3 wide and 2 high.                                                      *)
(***************************************************************************)
Pixel(x, y) == <<2 * x + 4 * y, 9 - 4 * x, x + y>>
Black == <<0, 0, 0>>
Varied == [y \in 0..1 |-> [x \in 0..1 |-> Pixel(x, y)]]
Uniform == [y \in 0..1 |-> [x \in 0..2 |-> Black]]
LoadableImages == {Varied, Uniform}

(***************************************************************************)
(* cv2.GaussianBlur(roi, (ksize, ksize), ksize / 3.0) with the default     *)
(* border (reflect-101): a separable normalised weighted average, first    *)
(* along the rows, then along the columns, rounded to the nearest integer. *)
(* The coefficient at distance d is exp(-d^2 / (2 sigma^2)), here in       *)
(* thousandths through 1 / (1 + t + t^2/2 + t^3/6), t = 9 d^2 / (2 k^2).   *)
(***************************************************************************)
Weight(d, k) ==
    LET q == (9000 * Sq(d)) \div (2 * Sq(k))
        den == 1000 + q + (Sq(q) \div 2000) + ((Sq(q) * q) \div 6000000)
    IN 1000000 \div den

Reflect101(p, n) ==
    IF n = 1 THEN 0
    ELSE LET period == 2 * (n - 1)
             m == p % period
         IN IF m < n THEN m ELSE period - m

RECURSIVE TapSum(_, _, _, _, _)
TapSum(k, n, i, j, d) ==
    IF d > k \div 2 THEN 0
    ELSE (IF Reflect101(i + d, n) = j THEN Weight(Abs(d), k) ELSE 0)
         + TapSum(k, n, i, j, d + 1)

KSizes == {k \in BlurMin..BlurMax : k % 2 = 1}
Dims == UNION {{Width(img), Height(img)} : img \in LoadableImages}
MaxDim == CHOOSE n \in Dims : \A m \in Dims : m <= n

\* Folded[k][n][i][j]: the total coefficient with which source sample j of a
\* line of n samples enters output sample i, the border reflected.
Folded ==
    [k \in KSizes |-> [n \in 1..MaxDim |-> [i \in 0..(n - 1) |->
        [j \in 0..(n - 1) |-> TapSum(k, n, i, j, -(k \div 2))]]]]

KernelTotal(k) == Folded[k][1][0][0]

RECURSIVE WeightedSum(_, _, _)
WeightedSum(w, v, j) ==
    IF j < 0 THEN 0 ELSE w[j] * v[j] + WeightedSum(w, v, j - 1)

RoundDiv(num, den) == (2 * num + den) \div (2 * den)

\* One smoothed sample: line v of n samples, output position i.
Smooth(v, n, i, k) == RoundDiv(WeightedSum(Folded[k][n][i], v, n - 1), KernelTotal(k))

GaussianBlur(roi, ksize) ==
    LET rh == Height(roi)
        rw == Width(roi)
        rows == Value([ly \in 0..(rh - 1) |-> [lx \in 0..(rw - 1) |-> [c \in 1..Channels |->
                    Smooth([j \in 0..(rw - 1) |-> roi[ly][j][c]], rw, lx, ksize)]]])
    IN [ly \in 0..(rh - 1) |-> [lx \in 0..(rw - 1) |-> [c \in 1..Channels |->
           Smooth([j \in 0..(rh - 1) |-> rows[j][lx][c]], rh, ly, ksize)]]]

(***************************************************************************)
(* BlurTool._apply_blur                                                    *)
(***************************************************************************)
\* Box with the far corner left unclamped.
BoxFarUnclamped(img, cx, cy, r) ==
    [x1 |-> Max(cx - r, 0), y1 |-> Max(cy - r, 0), x2 |-> cx + r, y2 |-> cy + r]

\* Box with the near corner left unclamped.
BoxNearUnclamped(img, cx, cy, r) ==
    [x1 |-> cx - r, y1 |-> cy - r,
     x2 |-> Min(cx + r, Width(img)), y2 |-> Min(cy + r, Height(img))]

\* Bounding box clamped to image bounds.
Box(img, cx, cy, r) ==
    [x1 |-> Max(cx - r, 0), y1 |-> Max(cy - r, 0),
     x2 |-> Min(cx + r, Width(img)), y2 |-> Min(cy + r, Height(img))]

Degenerate(b) == b.x2 <= b.x1 \/ b.y2 <= b.y1

\* The indices a numpy slice lo:hi selects on an axis of n entries: a negative
\* bound counts from the end, and both are clipped to the axis.
SliceBound(i, n) == Max(0, Min(n, IF i < 0 THEN i + n ELSE i))
SliceStart(lo, n) == SliceBound(lo, n)
SliceLen(lo, hi, n) == Max(0, SliceBound(hi, n) - SliceBound(lo, n))

\* roi = self.image[y1:y2, x1:x2]
Roi(img, b) ==
    LET h == Height(img)
        w == Width(img)
    IN [ly \in 0..(SliceLen(b.y1, b.y2, h) - 1) |->
           [lx \in 0..(SliceLen(b.x1, b.x2, w) - 1) |->
               img[SliceStart(b.y1, h) + ly][SliceStart(b.x1, w) + lx]]]

\* ksize = self.blur_strength | 1
OddKernel(strength) == IF strength % 2 = 1 THEN strength ELSE strength + 1

\* cv2.circle(mask, (cx - x1, cy - y1), r, 255, -1) on a zeroed mask of the
\* ROI's shape: a filled disc.
CircleMask(roi, ccx, ccy, r) ==
    [ly \in DOMAIN roi |-> [lx \in DOMAIN roi[ly] |->
        IF Sq(lx - ccx) + Sq(ly - ccy) <= Sq(r) THEN MaskOn ELSE 0]]

\* Select mixing the blurred and the original pixel half and half under the
\* mask, as alpha blending would.
SelectBlended(mask, blurred, roi) ==
    [ly \in DOMAIN roi |-> [lx \in DOMAIN roi[ly] |->
        IF mask[ly][lx] = MaskOn
        THEN [c \in 1..Channels |-> (blurred[ly][lx][c] + roi[ly][lx][c]) \div 2]
        ELSE roi[ly][lx]]]

\* np.where(mask_3ch == 255, blurred_roi, roi)
Select(mask, blurred, roi) ==
    [ly \in DOMAIN roi |-> [lx \in DOMAIN roi[ly] |->
        IF mask[ly][lx] = MaskOn THEN blurred[ly][lx] ELSE roi[ly][lx]]]

\* WriteRegion assigning whole rows, image[y1:y2, :], the region's edge columns
\* repeated.
WriteRegionRows(img, b, roi_out) ==
    LET h == Height(img)
        w == Width(img)
        ys == SliceStart(b.y1, h)
        xs == SliceStart(b.x1, w)
        last_col == SliceLen(b.x1, b.x2, w) - 1
    IN [y \in DOMAIN img |-> [x \in DOMAIN img[y] |->
           IF ys <= y /\ y < ys + SliceLen(b.y1, b.y2, h)
           THEN roi_out[y - ys][Max(0, Min(last_col, x - xs))]
           ELSE img[y][x]]]

\* self.image[y1:y2, x1:x2] = roi_out
WriteRegion(img, b, roi_out) ==
    LET h == Height(img)
        w == Width(img)
        ys == SliceStart(b.y1, h)
        xs == SliceStart(b.x1, w)
    IN [y \in DOMAIN img |-> [x \in DOMAIN img[y] |->
           IF /\ ys <= y /\ y < ys + SliceLen(b.y1, b.y2, h)
              /\ xs <= x /\ x < xs + SliceLen(b.x1, b.x2, w)
           THEN roi_out[y - ys][x - xs]
           ELSE img[y][x]]]

RoiOut(img, b, cx, cy, r, strength) ==
    LET roi == Value(Roi(img, b))
        ksize == OddKernel(strength)
        blurred_roi == Value(GaussianBlur(roi, ksize))
        mask == CircleMask(roi, cx - b.x1, cy - b.y1, r)
    IN Select(mask, blurred_roi, roi)

(***************************************************************************)
(* Arrays.  storage[i] names the array that history entry i is held in: 0  *)
(* for the array of the live image, otherwise the position of the first    *)
(* entry held in that array.                                               *)
(***************************************************************************)
\* SnapshotStorage with the copy left out: self.history.append(self.image).
SnapshotStorageShared(store) == Append(store, 0)

\* self.image.copy() is a new array.
SnapshotStorage(store) == Append(store, Len(store) + 1)

StorageAfterBlur(store, img, cx, cy, r) ==
    IF Degenerate(Box(img, cx, cy, r)) THEN store ELSE SnapshotStorage(store)

\* self.image[y1:y2, x1:x2] = roi_out writes into the live image's array, and
\* so into every history entry held in that array.
WrittenThrough(hist, store, img) ==
    IF \A i \in DOMAIN store : store[i] # 0 THEN hist
    ELSE [i \in DOMAIN hist |-> IF store[i] = 0 THEN img ELSE hist[i]]

\* self.image = self.history.pop(): the popped entry's array becomes the live
\* image's; the array left behind is named after the first entry it holds.
UndoStorage(store) ==
    IF store = <<>> THEN store
    ELSE LET k == Len(store)
             rest == SubSeq(store, 1, k - 1)
             left == {i \in 1..(k - 1) : rest[i] = 0}
         IN IF store[k] = 0 THEN rest
            ELSE [i \in 1..(k - 1) |->
                    IF rest[i] = store[k] THEN 0
                    ELSE IF rest[i] = 0 THEN CHOOSE m \in left : \A n \in left : m <= n
                    ELSE rest[i]]

\* PushSnapshot with the append left out.
PushSnapshotDropped(hist, img) == hist

\* self.history.append(self.image.copy())
PushSnapshot(hist, img) == Append(hist, img)

BlurredImage(img, cx, cy, r, strength) ==
    LET b == Box(img, cx, cy, r)
    IN IF Degenerate(b) THEN img
       ELSE WriteRegion(img, b, RoiOut(img, b, cx, cy, r, strength))

\* HistoryAfterBlur with the snapshot taken before the degenerate-box test.
HistoryAfterBlurAlways(hist, img, cx, cy, r) == PushSnapshot(hist, img)

HistoryAfterBlur(hist, img, cx, cy, r) ==
    IF Degenerate(Box(img, cx, cy, r)) THEN hist ELSE PushSnapshot(hist, img)

(***************************************************************************)
(* The events.  `last' records the event handled last: which one; for a    *)
(* click the pointer position, the clamped box, the kernel size and the    *)
(* image and history it found; for a parameter key the value it found; for *)
(* undo the history length it found and whether it follows a click that    *)
(* pushed a snapshot ("click") and changed pixels ("blur"); and the line   *)
(* printed.                                                                *)
(***************************************************************************)
NoBox == [x1 |-> 0, y1 |-> 0, x2 |-> 0, y2 |-> 0]
Quiet ==
    [ev |-> "start", x |-> 0, y |-> 0, box |-> NoBox, ksize |-> 0, image |-> <<>>,
     history |-> <<>>, old |-> 0, follows |-> "", printed |-> <<>>]

\* Pointer positions the events are drawn from: far outside the image, inside
\* it, beside its right edge, and off its top-left corner.
ClickPoints(img) ==
    {<<-1000, -1000>>, <<Width(img) - 1, Height(img) - 1>>, <<Width(img) + 9, 0>>,
     <<-19, -19>>}

\* Pointer positions beside the left and the top edge, nearer to the image
\* than the smallest radius.
EdgePoints == {<<-9, 0>>, <<0, -9>>}
MovePoints == {<<1, 0>>}

\* Active with the breaks left out: the loop goes on after a quit.
ActiveAlways == TRUE

\* while True: ... break
Active == session = "Active"

\* self.original = cv2.imread(image_path); self.image = self.original.copy()
Init ==
    /\ original \in LoadableImages
    /\ image = original
    /\ history = <<>>
    /\ radius = InitRadius
    /\ blur_strength = InitBlur
    /\ mouse_pos = <<-1, -1>>
    /\ session = "Active"
    /\ saved = <<>>
    /\ last = Quiet
    /\ storage = <<>>
    /\ depth = 0

MouseMove(x, y) ==
    /\ Active
    /\ mouse_pos' = <<x, y>>
    /\ last' = [Quiet EXCEPT !.ev = "move", !.x = x, !.y = y]
    /\ UNCHANGED <<original, image, history, storage, depth, radius, blur_strength, session, saved>>

LButtonDown(x, y) ==
    /\ Active
    /\ Degenerate(Box(image, x, y, radius)) \/ Len(history) < MaxHistory
    /\ image' = BlurredImage(image, x, y, radius, blur_strength)
    /\ storage' = StorageAfterBlur(storage, image, x, y, radius)
    /\ depth' = IF Degenerate(Box(image, x, y, radius)) THEN depth ELSE depth + 1
    /\ history' = WrittenThrough(HistoryAfterBlur(history, image, x, y, radius),
                                 storage', image')
    /\ last' = [Quiet EXCEPT !.ev = "click", !.x = x, !.y = y,
                             !.box = Box(image, x, y, radius),
                             !.ksize = OddKernel(blur_strength),
                             !.image = image, !.history = history]
    /\ UNCHANGED <<original, radius, blur_strength, mouse_pos, session, saved>>

\* KeyEsc writing the image out as q does.
KeyEscSaving ==
    /\ Active
    /\ saved' = <<image>>
    /\ session' = "Terminated"
    /\ last' = [Quiet EXCEPT !.ev = "esc", !.printed = <<"Exited without saving.">>]
    /\ UNCHANGED <<original, image, history, storage, depth, radius, blur_strength, mouse_pos>>

\* cv2.imwrite(out, self.image); break
KeyQ ==
    /\ Active
    /\ saved' = <<image>>
    /\ session' = "Terminated"
    /\ last' = [Quiet EXCEPT !.ev = "q", !.printed = <<"Saved blurred image to: ">>]
    /\ UNCHANGED <<original, image, history, storage, depth, radius, blur_strength, mouse_pos>>

KeyEsc ==
    /\ Active
    /\ session' = "Terminated"
    /\ last' = [Quiet EXCEPT !.ev = "esc", !.printed = <<"Exited without saving.">>]
    /\ UNCHANGED <<original, image, history, storage, depth, radius, blur_strength, mouse_pos, saved>>

\* DecreasedRadius without its lower clamp.
DecreasedRadiusUnclamped(r) == r - RadiusStep
\* IncreasedBlur clamped at the even 200.
IncreasedBlurEven(s) == Min(s + BlurStep, BlurMax + 1)
\* DecreasedBlur clamped at 1.
DecreasedBlurToOne(s) == Max(s - BlurStep, 1)

IncreasedRadius(r) == Min(r + RadiusStep, RadiusMax)
DecreasedRadius(r) == Max(r - RadiusStep, RadiusMin)
IncreasedBlur(s) == Min(s + BlurStep, BlurMax)
DecreasedBlur(s) == Max(s - BlurStep, BlurMin)

KeyPlus ==
    /\ Active
    /\ radius' = IncreasedRadius(radius)
    /\ last' = [Quiet EXCEPT !.ev = "+", !.old = radius,
                             !.printed = <<"Radius: ", radius'>>]
    /\ UNCHANGED <<original, image, history, storage, depth, blur_strength, mouse_pos, session, saved>>

KeyMinus ==
    /\ Active
    /\ radius' = DecreasedRadius(radius)
    /\ last' = [Quiet EXCEPT !.ev = "-", !.old = radius,
                             !.printed = <<"Radius: ", radius'>>]
    /\ UNCHANGED <<original, image, history, storage, depth, blur_strength, mouse_pos, session, saved>>

KeyRBracket ==
    /\ Active
    /\ blur_strength' = IncreasedBlur(blur_strength)
    /\ last' = [Quiet EXCEPT !.ev = "]", !.old = blur_strength,
                             !.printed = <<"Blur strength: ", blur_strength'>>]
    /\ UNCHANGED <<original, image, history, storage, depth, radius, mouse_pos, session, saved>>

KeyLBracket ==
    /\ Active
    /\ blur_strength' = DecreasedBlur(blur_strength)
    /\ last' = [Quiet EXCEPT !.ev = "[", !.old = blur_strength,
                             !.printed = <<"Blur strength: ", blur_strength'>>]
    /\ UNCHANGED <<original, image, history, storage, depth, radius, mouse_pos, session, saved>>

\* UndoHistory reading the last snapshot without popping it.
UndoHistoryKept(hist) == hist
\* UndoLine printing "Undo." whatever the history holds.
UndoLineAlways(hist) == <<"Undo.">>

\* UndoImage with the assignment left out: the entry is popped and dropped.
UndoImageKept(hist, img) == img

\* if self.history: self.image = self.history.pop()
UndoImage(hist, img) == IF hist # <<>> THEN hist[Len(hist)] ELSE img
UndoHistory(hist) == IF hist # <<>> THEN SubSeq(hist, 1, Len(hist) - 1) ELSE hist
UndoLine(hist) == IF hist # <<>> THEN <<"Undo.">> ELSE <<"Nothing to undo.">>

\* What the undo comes after: a click that pushed a snapshot, and whether that
\* click changed a pixel.
Follows ==
    IF last.ev = "click" /\ Len(history) > Len(last.history)
    THEN (IF image # last.image THEN "blur" ELSE "click")
    ELSE ""

\* KeyU popping without the test: on an empty history the pop raises and the
\* loop is left.
KeyUCrashing ==
    /\ Active
    /\ image' = UndoImage(history, image)
    /\ history' = UndoHistory(history)
    /\ storage' = UndoStorage(storage)
    /\ depth' = IF history # <<>> THEN depth - 1 ELSE depth
    /\ session' = IF history = <<>> THEN "Terminated" ELSE session
    /\ last' = [Quiet EXCEPT !.ev = "u", !.old = Len(history), !.follows = Follows,
                             !.printed = UndoLine(history)]
    /\ UNCHANGED <<original, radius, blur_strength, mouse_pos, saved>>

\* KeyU putting the radius back to its first value along with the image.
KeyURestoringRadius ==
    /\ Active
    /\ image' = UndoImage(history, image)
    /\ history' = UndoHistory(history)
    /\ storage' = UndoStorage(storage)
    /\ depth' = IF history # <<>> THEN depth - 1 ELSE depth
    /\ radius' = IF history # <<>> THEN InitRadius ELSE radius
    /\ last' = [Quiet EXCEPT !.ev = "u", !.old = Len(history), !.follows = Follows,
                             !.printed = UndoLine(history)]
    /\ UNCHANGED <<original, blur_strength, mouse_pos, session, saved>>

KeyU ==
    /\ Active
    /\ image' = UndoImage(history, image)
    /\ history' = UndoHistory(history)
    /\ storage' = UndoStorage(storage)
    /\ depth' = IF history # <<>> THEN depth - 1 ELSE depth
    /\ last' = [Quiet EXCEPT !.ev = "u", !.old = Len(history), !.follows = Follows,
                             !.printed = UndoLine(history)]
    /\ UNCHANGED <<original, radius, blur_strength, mouse_pos, session, saved>>

Next ==
    \/ \E p \in MovePoints : MouseMove(p[1], p[2])
    \/ \E p \in ClickPoints(image) : LButtonDown(p[1], p[2])
    \/ KeyQ
    \/ KeyEsc
    \/ KeyPlus
    \/ KeyMinus
    \/ KeyRBracket
    \/ KeyLBracket
    \/ KeyU

Spec == Init /\ [][Next]_vars

\* The same session with the clicks drawn from EdgePoints.
NextNearEdge ==
    \/ \E p \in MovePoints : MouseMove(p[1], p[2])
    \/ \E p \in EdgePoints : LButtonDown(p[1], p[2])
    \/ KeyQ
    \/ KeyEsc
    \/ KeyPlus
    \/ KeyMinus
    \/ KeyRBracket
    \/ KeyLBracket
    \/ KeyU

SpecNearEdge == Init /\ [][NextNearEdge]_vars

(***************************************************************************)
(* Properties.  A step is recognised by the event it records in last'.     *)
(***************************************************************************)

C2_UndoOnEmptyHistory ==
    [][(last'.ev = "u" /\ history = <<>>)
       => (/\ image' = image
           /\ history' = <<>>
           /\ radius' = radius
           /\ blur_strength' = blur_strength
           /\ session' = "Active"
           /\ last'.printed = <<"Nothing to undo.">>)]_vars

\* Undo was pressed on an empty history, the parameters away from their
\* initial values.
C2_Witness ==
    /\ last.ev = "u"
    /\ last.old = 0
    /\ last.printed = <<"Nothing to undo.">>
    /\ session = "Active"
    /\ radius # 50
    /\ blur_strength # 51

\* C3: in every reachable state 10 <= radius <= 300 and 11 <= kernelSize <=
\* 199, starting from 50 and 51; an increase at the maximum and a decrease at
\* the minimum leave the value where it is.
C3_ParametersClamped ==
    /\ radius >= 10 /\ radius <= 300
    /\ blur_strength >= 11 /\ blur_strength <= 199
    /\ (last.ev = "start" => radius = 50 /\ blur_strength = 51)
    /\ (last.ev = "+" /\ last.old = 300 => radius = 300)
    /\ (last.ev = "-" /\ last.old = 10 => radius = 10)
    /\ (last.ev = "]" /\ last.old = 199 => blur_strength = 199)
    /\ (last.ev = "[" /\ last.old = 11 => blur_strength = 11)

\* The radius was increased at its maximum while kernelSize sat at its minimum.
C3_Witness ==
    /\ last.ev = "+"
    /\ last.old = 300
    /\ radius = 300
    /\ blur_strength = 11

\* C4 as claimed: every parameter key changes its parameter by exactly 10,
\* except at the maximum (increase) or minimum (decrease), where it changes
\* by 0.
C4_StepExactlyTen ==
    [][/\ (last'.ev = "+" => radius' - radius = IF radius = 300 THEN 0 ELSE 10)
       /\ (last'.ev = "-" => radius - radius' = IF radius = 10 THEN 0 ELSE 10)
       /\ (last'.ev = "]"
           => blur_strength' - blur_strength = IF blur_strength = 199 THEN 0 ELSE 10)
       /\ (last'.ev = "["
           => blur_strength - blur_strength' = IF blur_strength = 11 THEN 0 ELSE 10)]_vars

\* C4 amended: every parameter key changes its parameter by exactly 10, except
\* that the change is 0 at the maximum (increase) or minimum (decrease), and 8
\* for increaseBlur at 191 (to 199) and decreaseBlur at 19 (to 11).
C4_StepTenOrClamped ==
    [][/\ (last'.ev = "+" => radius' - radius = IF radius = 300 THEN 0 ELSE 10)
       /\ (last'.ev = "-" => radius - radius' = IF radius = 10 THEN 0 ELSE 10)
       /\ (last'.ev = "]"
           => blur_strength' - blur_strength =
                 IF blur_strength = 199 THEN 0 ELSE IF blur_strength = 191 THEN 8 ELSE 10)
       /\ (last'.ev = "["
           => blur_strength - blur_strength' =
                 IF blur_strength = 11 THEN 0 ELSE IF blur_strength = 19 THEN 8 ELSE 10)]_vars

\* decreaseBlur has just taken kernelSize from 19 to 11.
C4_Witness ==
    /\ last.ev = "["
    /\ last.old = 19
    /\ blur_strength = 11

\* C5: the kernel size handed to the blur by a non-degenerate click is odd and
\* within [11,199]; the stored kernelSize is itself odd in every reachable
\* state, so making it odd at use changes nothing.
C5_KernelOdd ==
    /\ blur_strength % 2 = 1
    /\ OddKernel(blur_strength) = blur_strength
    /\ (last.ev = "click" /\ Len(history) > Len(last.history)
        => (/\ last.ksize % 2 = 1
            /\ last.ksize >= 11 /\ last.ksize <= 199
            /\ last.ksize = blur_strength))

\* A click has blurred with the largest kernel, 199, which is off the grid
\* 11, 21, ..., 191.
C5_Witness ==
    /\ last.ev = "click"
    /\ Len(history) > Len(last.history)
    /\ last.ksize = 199
    /\ image # last.image

\* C6: a click whose clamped bounding box is degenerate (x2 <= x1 or
\* y2 <= y1) changes nothing: live image, history, radius and kernelSize stay
\* as they are and the session stays Active.
C6_DegenerateClickNoOp ==
    [][(/\ last'.ev = "click"
        /\ \/ Min(last'.x + radius, Width(image)) <= Max(last'.x - radius, 0)
           \/ Min(last'.y + radius, Height(image)) <= Max(last'.y - radius, 0))
       => (/\ image' = image
           /\ history' = history
           /\ radius' = radius
           /\ blur_strength' = blur_strength
           /\ session' = "Active")]_vars

\* A click at (-1000,-1000) has just been handled on a blurred image with a
\* snapshot in the history.
C6_Witness ==
    /\ last.ev = "click"
    /\ last.x = -1000
    /\ last.y = -1000
    /\ history # <<>>
    /\ image # Varied
    /\ image = last.image

C8_OutsideBoxUnchanged ==
    [][last'.ev = "click"
       => LET x1 == Max(last'.x - radius, 0)
              y1 == Max(last'.y - radius, 0)
              x2 == Min(last'.x + radius, Width(image))
              y2 == Min(last'.y + radius, Height(image))
          IN /\ DOMAIN image' = DOMAIN image
             /\ \A y \in DOMAIN image :
                  /\ DOMAIN image'[y] = DOMAIN image[y]
                  /\ \A x \in DOMAIN image[y] :
                       ~(x1 <= x /\ x < x2 /\ y1 <= y /\ y < y2)
                          => image'[y][x] = image[y][x]]_vars

\* A click whose box leaves out the first column has changed a pixel.
C8_Witness ==
    /\ last.ev = "click"
    /\ last.box.x1 > 0
    /\ last.box.x1 < last.box.x2
    /\ Len(history) > Len(last.history)
    /\ image # last.image

\* C9: whenever a click is processed, 0 <= x1 < x2 <= width and
\* 0 <= y1 < y2 <= height, and the extracted, blurred, masked and written-back
\* regions all have the dimensions (x2 - x1) x (y2 - y1).
C9_BoxWithinImage ==
    (last.ev = "click" /\ Len(history) > Len(last.history))
    => LET b == last.box
           roi == Roi(last.image, b)
           blurred_roi == GaussianBlur(roi, last.ksize)
           mask == CircleMask(roi, last.x - b.x1, last.y - b.y1, radius)
           roi_out == Select(mask, blurred_roi, roi)
           rows == 0..(b.y2 - b.y1 - 1)
           cols == 0..(b.x2 - b.x1 - 1)
           Fits(region) == /\ DOMAIN region = rows
                           /\ \A ly \in rows : DOMAIN region[ly] = cols
       IN /\ 0 <= b.x1 /\ b.x1 < b.x2 /\ b.x2 <= Width(last.image)
          /\ 0 <= b.y1 /\ b.y1 < b.y2 /\ b.y2 <= Height(last.image)
          /\ Fits(roi) /\ Fits(blurred_roi) /\ Fits(mask) /\ Fits(roi_out)
          /\ \A y \in DOMAIN image : \A x \in DOMAIN image[y] :
               (b.x1 <= x /\ x < b.x2 /\ b.y1 <= y /\ y < b.y2)
                  => image[y][x] = roi_out[y - b.y1][x - b.x1]

\* A click centred at negative coordinates was processed on a box clamped at 0
\* that does not span the image.
C9_Witness ==
    /\ last.ev = "click"
    /\ Len(history) > Len(last.history)
    /\ last.x < 0
    /\ last.y < 0
    /\ last.box.x1 = 0
    /\ last.box.x2 < Width(image)

\* C10: once the session is Terminated nothing changes the live image, the
\* history, radius or kernelSize, and Terminated is never left.
C10_TerminatedIsFinal ==
    [][session = "Terminated"
       => (/\ image' = image
           /\ history' = history
           /\ radius' = radius
           /\ blur_strength' = blur_strength
           /\ session' = "Terminated")]_vars

\* The session has ended through save-and-quit with a snapshot still in the
\* history.
C10_Witness ==
    /\ session = "Terminated"
    /\ last.ev = "q"
    /\ history # <<>>
    /\ saved = <<image>>

\* C11: after a click with a non-degenerate box at (cx,cy) with radius r, each
\* pixel (x,y) of the clamped box holds the blurred value of the box region,
\* computed from the box's contents before the click only, if
\* (x-cx)^2 + (y-cy)^2 <= r^2, and the value it had before the click
\* otherwise: one or the other, never a mixture.
C11_HardCutout ==
    (last.ev = "click" /\ Len(history) > Len(last.history))
    => LET b == last.box
           region == [ly \in 0..(b.y2 - b.y1 - 1) |-> [lx \in 0..(b.x2 - b.x1 - 1) |->
                        last.image[b.y1 + ly][b.x1 + lx]]]
           blurred == Value(GaussianBlur(region, last.ksize))
       IN \A y \in b.y1..(b.y2 - 1) : \A x \in b.x1..(b.x2 - 1) :
            image[y][x] = IF Sq(x - last.x) + Sq(y - last.y) <= Sq(radius)
                          THEN blurred[y - b.y1][x - b.x1]
                          ELSE last.image[y][x]

\* A click beside the right edge at radius 10: of the two box pixels one lies
\* in the circle and has taken a new, blurred value, the other lies outside
\* and has kept its own.
C11_Witness ==
    /\ last.ev = "click"
    /\ Len(history) > Len(last.history)
    /\ radius = 10
    /\ last.box.x1 = Width(image) - 1
    /\ Sq(last.box.x1 - last.x) + Sq(0 - last.y) <= Sq(radius)
    /\ Sq(last.box.x1 - last.x) + Sq(1 - last.y) > Sq(radius)
    /\ image[0][last.box.x1] # last.image[0][last.box.x1]
    /\ image[1][last.box.x1] = last.image[1][last.box.x1]

\* C12: for every click centre and radius, every image pixel (x,y) with
\* (x-cx)^2 + (y-cy)^2 <= r^2 lies inside the clamped box [x1,x2) x [y1,y2).
C12_CircleInsideBox ==
    last.ev = "click"
    => \A y \in DOMAIN last.image : \A x \in DOMAIN last.image[y] :
         Sq(x - last.x) + Sq(y - last.y) <= Sq(radius)
            => /\ last.box.x1 <= x /\ x < last.box.x2
               /\ last.box.y1 <= y /\ y < last.box.y2

\* C13: a click is degenerate (its clamped box is empty, and nothing is pushed)
\* iff cx+r <= 0 or cx-r >= width or cy+r <= 0 or cy-r >= height; so every
\* click with 0 <= cx < width and 0 <= cy < height is non-degenerate and
\* pushes a history entry.
C13_DegenerateIffOutside ==
    last.ev = "click"
    => LET w == Width(last.image)
           h == Height(last.image)
           b == last.box
           pushed == Len(history) = Len(last.history) + 1
           outside == \/ last.x + radius <= 0
                      \/ last.x - radius >= w
                      \/ last.y + radius <= 0
                      \/ last.y - radius >= h
       IN /\ (b.x2 <= b.x1 \/ b.y2 <= b.y1) <=> outside
          /\ pushed <=> ~outside
          /\ ~pushed => history = last.history
          /\ (0 <= last.x /\ last.x < w /\ 0 <= last.y /\ last.y < h) => pushed

\* A click centred on a pixel of the image, at the smallest radius, has pushed
\* a history entry.
C13_Witness ==
    /\ last.ev = "click"
    /\ 0 <= last.x /\ last.x < Width(image)
    /\ 0 <= last.y /\ last.y < Height(image)
    /\ radius = 10
    /\ Len(history) = Len(last.history) + 1

C15_SavedOnlyOnQuitAndSave ==
    [][/\ last'.ev = "q"
          => (saved = <<>> /\ saved' = <<image>> /\ image' = image
              /\ session' = "Terminated")
       /\ last'.ev = "esc" => (saved' = <<>> /\ session' = "Terminated")
       /\ saved' # saved => last'.ev = "q"
       /\ session' = "Active" => saved' = <<>>]_vars

\* The session was quit with q on an image that carries a blur: the saved
\* content is that image, not one of the loadable ones.
C15_Witness ==
    /\ last.ev = "q"
    /\ session = "Terminated"
    /\ saved = <<image>>
    /\ image \notin LoadableImages

\* C16: the session leaves Active only through quitAndSave or quitDiscard:
\* after any click, any undo, any pointer move and any parameter change taken
\* while Active the session is still Active.
C16_ActiveUntilQuit ==
    [][session = "Active"
       => /\ last'.ev \in {"click", "u", "move", "+", "-", "]", "["} => session' = "Active"
          /\ session' # "Active" => last'.ev \in {"q", "esc"}]_vars

\* A click right of the image, where the box is cut at the image's edge, was
\* processed at the largest radius and kernel size, and the session goes on.
C16_Witness ==
    /\ last.ev = "click"
    /\ last.x >= Width(image)
    /\ radius = 300
    /\ last.ksize = 199
    /\ Len(history) > Len(last.history)
    /\ session = "Active"

C18_ParametersAndImageApart ==
    [][/\ last'.ev \in {"+", "-", "]", "[", "move"}
          => (image' = image /\ history' = history)
       /\ last'.ev \in {"click", "u"}
          => (radius' = radius /\ blur_strength' = blur_strength)]_vars

\* An undo has put the loaded image back while both parameters are away from
\* the values the session started with.
C18_Witness ==
    /\ last.ev = "u"
    /\ last.old = 1
    /\ last.follows = ""
    /\ image = original
    /\ radius # InitRadius
    /\ blur_strength # InitBlur

====
